---- MODULE Spec2Model ----
(***************************************************************************)
(* A model of the spaceship renderer: the input listener goroutine and the *)
(* render loop of main.go sharing one GameState, the 4x4 matrix algebra of *)
(* vector/mat4x4.go, the Vec3 operations, and the drawLine rasterizer.     *)
(*                                                                         *)
(* float64 values are modelled in fixed point: the integer n stands for    *)
(* the real n / FP.  Products and quotients round to the nearest unit.     *)
(* The matrix algebra claims are checked over integer-valued matrices, on  *)
(* which float64 arithmetic is exact.                                      *)
(***************************************************************************)
EXTENDS Integers, Sequences, FiniteSets

VARIABLES
    gs,        \* the GameState: angle and player (main.go 11-25, 106-110)
    quit,      \* number of close(quit) calls executed (main.go 112, 120)
    ev,        \* the listener's latest polled event (main.go 115)
    lpc,       \* position of the input listener goroutine
    rpc,       \* position of the render loop
    lreg,      \* listener's value computed from a read of Velocity, not yet stored
    rreg,      \* render loop's value computed from a read of Velocity, not yet stored
    frame,     \* what the render loop computed and drew in its latest tick
    events,    \* input events polled so far
    ticks,     \* ticks started so far
    line,      \* locals of a drawLine call under way
    plotted,   \* sequence of cells drawLine passed to SetContent
    alg        \* operands and results of the vector / matrix operations

vars == <<gs, quit, ev, lpc, rpc, lreg, rreg, frame, events, ticks, line, plotted, alg>>

-----------------------------------------------------------------------------
(* Bounds of the model *)

MaxEvents == 2     \* input events the listener polls
MaxTicks == 1      \* ticks the render loop starts
MouseCol == 31     \* mouse events report column 0 or MouseCol
MouseRow == 35     \* mouse events report row 0 or MouseRow
ScreenW == 40      \* screen.Size() reports ScreenW columns
ScreenH == 40      \* and ScreenH rows, or 0 rows
MaxSteps == 3      \* calls of Update in a run of Update on its own
MaxAlg == 1        \* matrix parameters and vector coordinates range over -MaxAlg .. MaxAlg
LineLo == 1        \* drawLine endpoints range over -LineLo .. LineHi
LineHi == 5

-----------------------------------------------------------------------------
(* Integer helpers *)

Abs(n) == IF n < 0 THEN -n ELSE n

Sgn(n) == IF n < 0 THEN -1 ELSE IF n > 0 THEN 1 ELSE 0

Max(a, b) == IF a >= b THEN a ELSE b

Min(a, b) == IF a <= b THEN a ELSE b

Reverse(s) == [i \in 1..Len(s) |-> s[Len(s) + 1 - i]]

Range(s) == {s[i] : i \in 1..Len(s)}

\* F applied to the value of v, with v evaluated once
Bind(v, F(_)) == CHOOSE r \in {F(x) : x \in {v}} : TRUE

-----------------------------------------------------------------------------
(* drawLine, main.go 47-79 *)

LineIdle == [pc |-> "idle", x1 |-> 0, y1 |-> 0, x2 |-> 0, y2 |-> 0,
             dx |-> 0, dy |-> 0, sx |-> 0, sy |-> 0, err |-> 0,
             ax |-> 0, ay |-> 0]

\* drawLine with both step directions fixed at +1
DrawLineEnter_NoSign(x1, y1, x2, y2) ==
    LET dx == IF x2 - x1 < 0 THEN -(x2 - x1) ELSE x2 - x1
        dy == IF y2 - y1 < 0 THEN -(y2 - y1) ELSE y2 - y1
    IN  [pc |-> "loop", x1 |-> x1, y1 |-> y1, x2 |-> x2, y2 |-> y2,
         dx |-> dx, dy |-> dy, sx |-> 1, sy |-> 1, err |-> dx - dy,
         ax |-> x1, ay |-> y1]

\* lines 48-63: the locals on entry to the loop; ax, ay keep the start point
DrawLineEnter(x1, y1, x2, y2) ==
    LET dx == IF x2 - x1 < 0 THEN -(x2 - x1) ELSE x2 - x1
        dy == IF y2 - y1 < 0 THEN -(y2 - y1) ELSE y2 - y1
        sx == IF x1 < x2 THEN 1 ELSE -1
        sy == IF y1 < y2 THEN 1 ELSE -1
    IN  [pc |-> "loop", x1 |-> x1, y1 |-> y1, x2 |-> x2, y2 |-> y2,
         dx |-> dx, dy |-> dy, sx |-> sx, sy |-> sy, err |-> dx - dy,
         ax |-> x1, ay |-> y1]

\* a loop body that steps in y only when it has not stepped in x
DrawLineBody_ElseIf(l) ==
    IF l.x1 = l.x2 /\ l.y1 = l.y2
    THEN [l EXCEPT !.pc = "done"]
    ELSE LET e2    == 2 * l.err
             stepX == e2 > -l.dy
             stepY == ~stepX /\ e2 < l.dx
             err1  == IF stepX THEN l.err - l.dy ELSE l.err
             err2  == IF stepY THEN err1 + l.dx ELSE err1
         IN  [l EXCEPT !.err = err2,
                       !.x1 = IF stepX THEN l.x1 + l.sx ELSE l.x1,
                       !.y1 = IF stepY THEN l.y1 + l.sy ELSE l.y1]

\* lines 66-77: one pass of the loop body after SetContent(x1, y1)
DrawLineBody(l) ==
    IF l.x1 = l.x2 /\ l.y1 = l.y2
    THEN [l EXCEPT !.pc = "done"]
    ELSE LET e2    == 2 * l.err
             stepX == e2 > -l.dy
             stepY == e2 < l.dx
             err1  == IF stepX THEN l.err - l.dy ELSE l.err
             err2  == IF stepY THEN err1 + l.dx ELSE err1
         IN  [l EXCEPT !.err = err2,
                       !.x1 = IF stepX THEN l.x1 + l.sx ELSE l.x1,
                       !.y1 = IF stepY THEN l.y1 + l.sy ELSE l.y1]

RECURSIVE DrawLineRun(_, _)
DrawLineRun(l, acc) ==
    IF l.pc = "done" THEN acc
    ELSE DrawLineRun(DrawLineBody(l), Append(acc, <<l.x1, l.y1>>))

\* the whole call: the sequence of cells passed to SetContent
drawLine(x1, y1, x2, y2) == DrawLineRun(DrawLineEnter(x1, y1, x2, y2), <<>>)

-----------------------------------------------------------------------------
(* float64 arithmetic in fixed point *)

FP == 1000         \* the integer n stands for the float64 value n / FP

Inf == 1000000000  \* stands for +Inf, -Inf stands for -Inf

IsInf(a) == Abs(a) >= Inf

\* a * b, rounded to the nearest unit; the products by 0 and by 1 are exact
FMul(a, b) ==
    IF a = 0 \/ b = 0 THEN 0
    ELSE IF b = FP THEN a
    ELSE IF a = FP THEN b
    ELSE IF IsInf(a) \/ IsInf(b) THEN Sgn(a) * Sgn(b) * Inf
    ELSE Sgn(a) * Sgn(b) * (Abs(a) * (Abs(b) \div FP) + (Abs(a) * (Abs(b) % FP) + FP \div 2) \div FP)

\* a / b, rounded to the nearest unit; x / 0 is an infinity and x / Inf is 0
\* (0 / 0, a NaN, is outside the inputs modelled)
FDivValues(a, b) ==
    IF IsInf(b) THEN 0
    ELSE IF b = 0 THEN Sgn(a) * Inf
    ELSE Sgn(a) * Sgn(b) * ((Abs(a) * FP + Abs(b) \div 2) \div Abs(b))

FDiv(a, b) == Bind(a, LAMBDA x : Bind(b, LAMBDA y : FDivValues(x, y)))

\* float64(n) of an int n
ToFloat(n) == n * FP

\* int(a) of a float64 a: truncation toward zero
ToInt(a) == Sgn(a) * (Abs(a) \div FP)

\* a / n for a small integer constant n
FDivInt(a, n) == Sgn(a) * ((Abs(a) + n \div 2) \div n)

PI == 3142         \* math.Pi

\* math.Sin on [-PI/2, PI/2]: the Taylor polynomial of degree 9
SinPoly(a) ==
    Bind(a, LAMBDA r :
    Bind(FMul(r, r), LAMBDA r2 :
    Bind(FMul(r2, r), LAMBDA r3 :
    Bind(FMul(r3, r2), LAMBDA r5 :
    Bind(FMul(r5, r2), LAMBDA r7 :
    Bind(FMul(r7, r2), LAMBDA r9 :
        r - FDivInt(r3, 6) + FDivInt(r5, 120) - FDivInt(r7, 5040) + FDivInt(r9, 362880)))))))

\* math.Cos on [-PI/2, PI/2]: the Taylor polynomial of degree 8
CosPoly(a) ==
    Bind(a, LAMBDA r :
    Bind(FMul(r, r), LAMBDA r2 :
    Bind(FMul(r2, r2), LAMBDA r4 :
    Bind(FMul(r4, r2), LAMBDA r6 :
    Bind(FMul(r4, r4), LAMBDA r8 :
        FP - FDivInt(r2, 2) + FDivInt(r4, 24) - FDivInt(r6, 720) + FDivInt(r8, 40320))))))

\* the angle reduced to [-PI, PI)
Reduce(a) == ((a + PI) % (2 * PI)) - PI

Sin(a) ==
    LET r == Reduce(a)
    IN  IF r > PI \div 2 THEN SinPoly(PI - r)
        ELSE IF r < -(PI \div 2) THEN SinPoly(-PI - r)
        ELSE SinPoly(r)

Cos(a) ==
    LET r == Reduce(a)
    IN  IF r > PI \div 2 THEN -CosPoly(PI - r)
        ELSE IF r < -(PI \div 2) THEN -CosPoly(-PI - r)
        ELSE CosPoly(r)

Tan(a) == FDiv(Sin(a), Cos(a))

-----------------------------------------------------------------------------
(* Vec3 *)

Vec3(x, y, z) == [X |-> x, Y |-> y, Z |-> z]

Add(v1, v2) == Vec3(v1.X + v2.X, v1.Y + v2.Y, v1.Z + v2.Z)

Sub(v1, v2) == Vec3(v1.X - v2.X, v1.Y - v2.Y, v1.Z - v2.Z)

Scale(v, s) == Vec3(FMul(v.X, s), FMul(v.Y, s), FMul(v.Z, s))

Dot(v1, v2) == FMul(v1.X, v2.X) + FMul(v1.Y, v2.Y) + FMul(v1.Z, v2.Z)

Cross(v1, v2) ==
    Vec3(FMul(v1.Y, v2.Z) - FMul(v1.Z, v2.Y),
         FMul(v1.Z, v2.X) - FMul(v1.X, v2.Z),
         FMul(v1.X, v2.Y) - FMul(v1.Y, v2.X))

-----------------------------------------------------------------------------
(* Mat4x4: the array M [16]float64 as a tuple; At(m, i) is m.M[i] *)

At(m, i) == m[i + 1]

\* the earlier MultiplyVec3 (mat4x4.go 9-22), which divides by w when w # 0
MultiplyVec3_Divide(mat, v) ==
    LET x == FMul(v.X, At(mat, 0)) + FMul(v.Y, At(mat, 4)) + FMul(v.Z, At(mat, 8)) + At(mat, 12)
        y == FMul(v.X, At(mat, 1)) + FMul(v.Y, At(mat, 5)) + FMul(v.Z, At(mat, 9)) + At(mat, 13)
        z == FMul(v.X, At(mat, 2)) + FMul(v.Y, At(mat, 6)) + FMul(v.Z, At(mat, 10)) + At(mat, 14)
        w == FMul(v.X, At(mat, 3)) + FMul(v.Y, At(mat, 7)) + FMul(v.Z, At(mat, 11)) + At(mat, 15)
    IN  IF w # 0 THEN [v |-> Vec3(FDiv(x, w), FDiv(y, w), FDiv(z, w)), w |-> w]
                 ELSE [v |-> Vec3(x, y, z), w |-> w]

\* the two results of MultiplyVec3, as a record
MultiplyVec3(mat, v) ==
    [v |-> Vec3(FMul(v.X, At(mat, 0)) + FMul(v.Y, At(mat, 4)) + FMul(v.Z, At(mat, 8)) + At(mat, 12),
                FMul(v.X, At(mat, 1)) + FMul(v.Y, At(mat, 5)) + FMul(v.Z, At(mat, 9)) + At(mat, 13),
                FMul(v.X, At(mat, 2)) + FMul(v.Y, At(mat, 6)) + FMul(v.Z, At(mat, 10)) + At(mat, 14)),
     w |-> FMul(v.X, At(mat, 3)) + FMul(v.Y, At(mat, 7)) + FMul(v.Z, At(mat, 11)) + At(mat, 15)]

NewRotationY(angle) ==
    Bind(Cos(angle), LAMBDA cos : Bind(Sin(angle), LAMBDA sin :
        << cos, 0, -sin, 0,
           0, FP, 0, 0,
           sin, 0, cos, 0,
           0, 0, 0, FP >>))

NewRotationX(angle) ==
    Bind(Cos(angle), LAMBDA cos : Bind(Sin(angle), LAMBDA sin :
        << FP, 0, 0, 0,
           0, cos, sin, 0,
           0, -sin, cos, 0,
           0, 0, 0, FP >>))

NewTranslation(x, y, z) ==
    << FP, 0, 0, 0,
       0, FP, 0, 0,
       0, 0, FP, 0,
       x, y, z, FP >>

\* the product taken in the other order
Multiply_Swapped(a, b) == Bind(b, LAMBDA m1 : Bind(a, LAMBDA m2 :
    LET sum(i, j) == FMul(At(m1, 0 * 4 + j), At(m2, i * 4 + 0))
                   + FMul(At(m1, 1 * 4 + j), At(m2, i * 4 + 1))
                   + FMul(At(m1, 2 * 4 + j), At(m2, i * 4 + 2))
                   + FMul(At(m1, 3 * 4 + j), At(m2, i * 4 + 3))
    IN  << sum(0, 0), sum(0, 1), sum(0, 2), sum(0, 3),
           sum(1, 0), sum(1, 1), sum(1, 2), sum(1, 3),
           sum(2, 0), sum(2, 1), sum(2, 2), sum(2, 3),
           sum(3, 0), sum(3, 1), sum(3, 2), sum(3, 3) >>))

Multiply(a, b) == Bind(a, LAMBDA m1 : Bind(b, LAMBDA m2 :
    LET sum(i, j) == FMul(At(m1, 0 * 4 + j), At(m2, i * 4 + 0))
                   + FMul(At(m1, 1 * 4 + j), At(m2, i * 4 + 1))
                   + FMul(At(m1, 2 * 4 + j), At(m2, i * 4 + 2))
                   + FMul(At(m1, 3 * 4 + j), At(m2, i * 4 + 3))
    IN  << sum(0, 0), sum(0, 1), sum(0, 2), sum(0, 3),
           sum(1, 0), sum(1, 1), sum(1, 2), sum(1, 3),
           sum(2, 0), sum(2, 1), sum(2, 2), sum(2, 3),
           sum(3, 0), sum(3, 1), sum(3, 2), sum(3, 3) >>))

NewPerspective(fov, aspectRatio, near, far) ==
    Bind(FDiv(FP, Tan(FDivInt(FMul(fov, PI), 360))), LAMBDA f :
        << FDiv(f, aspectRatio), 0, 0, 0,
           0, f, 0, 0,
           0, 0, FDiv(far + near, near - far), -FP,
           0, 0, FDiv(FMul(FMul(2 * FP, far), near), near - far), 0 >>)

-----------------------------------------------------------------------------
(* main.go: constants, the mesh, the GameState *)

fov == 90 * FP

friction == 990

thrust == 5

brakeForce == 50

maxPitch == PI \div 2 - 10

near == 100        \* the 0.1 of the clip test and of the near plane

far == 100 * FP

verts == << Vec3(-FP, -FP, -FP), Vec3(FP, -FP, -FP), Vec3(FP, FP, -FP), Vec3(-FP, FP, -FP),
            Vec3(-FP, -FP, FP), Vec3(FP, -FP, FP), Vec3(FP, FP, FP), Vec3(-FP, FP, FP) >>

triangles == << <<0, 2, 1>>, <<0, 3, 2>>,
                <<1, 2, 6>>, <<1, 6, 5>>,
                <<0, 1, 5>>, <<0, 5, 4>>,
                <<3, 7, 6>>, <<3, 6, 2>>,
                <<0, 4, 7>>, <<0, 7, 3>>,
                <<4, 5, 6>>, <<4, 6, 7>> >>

Zero3 == Vec3(0, 0, 0)

GsInit == [angle  |-> 0,
           player |-> [Position |-> Vec3(0, 0, 5 * FP), Velocity |-> Zero3,
                       Yaw |-> 0, Pitch |-> 0,
                       prevMouseX |-> 0, prevMouseY |-> 0, firstMouse |-> TRUE]]

\* Forward with the sign of x the other way
Forward_Mirrored(p) ==
    LET yaw   == p.Yaw
        pitch == p.Pitch
    IN  Bind(Cos(pitch), LAMBDA cosPitch :
        Bind(Sin(yaw), LAMBDA sinYaw :
        Bind(Cos(yaw), LAMBDA cosYaw :
            Vec3(FMul(sinYaw, cosPitch), Sin(pitch), FMul(-cosYaw, cosPitch)))))

Forward(p) ==
    LET yaw   == p.Yaw
        pitch == p.Pitch
    IN  Bind(Cos(pitch), LAMBDA cosPitch :
        Bind(Sin(yaw), LAMBDA sinYaw :
        Bind(Cos(yaw), LAMBDA cosYaw :
            Vec3(FMul(-sinYaw, cosPitch), Sin(pitch), FMul(-cosYaw, cosPitch)))))

-----------------------------------------------------------------------------
(* The body of the loop over the triangles, main.go 189-232 *)

\* culling with a strict comparison
Culled_Strict(tv1, tv2, tv3) ==
    Bind(Cross(Sub(tv2, tv1), Sub(tv3, tv1)), LAMBDA normal : Dot(normal, tv1) > 0)

Culled(tv1, tv2, tv3) ==
    Bind(Cross(Sub(tv2, tv1), Sub(tv3, tv1)), LAMBDA normal : Dot(normal, tv1) >= 0)

\* clipping only when all three vertices are behind the near plane
Clipped_All(w1, w2, w3) == w1 < near /\ w2 < near /\ w3 < near

Clipped(w1, w2, w3) == w1 < near \/ w2 < near \/ w3 < near

ScreenX(x, width) == Bind(FDiv(x + FP, 2 * FP), LAMBDA h : Bind(FMul(h, ToFloat(width)), ToInt))

ScreenY(y, height) == Bind(FDiv(FP - y, 2 * FP), LAMBDA h : Bind(FMul(h, ToFloat(height)), ToInt))

\* lines 204-232, for a triangle that is not culled: p1, p2, p3 are the
\* results of mvpMatrix.MultiplyVec3
ProjectAndDraw(p1, p2, p3, width, height) ==
    IF Clipped(p1.w, p2.w, p3.w)
    THEN [culled |-> FALSE, clipped |-> TRUE, w |-> <<p1.w, p2.w, p3.w>>,
          divs |-> <<>>, calls |-> <<>>]
    ELSE LET sx1 == ScreenX(FDiv(p1.v.X, p1.w), width)
             sy1 == ScreenY(FDiv(p1.v.Y, p1.w), height)
             sx2 == ScreenX(FDiv(p2.v.X, p2.w), width)
             sy2 == ScreenY(FDiv(p2.v.Y, p2.w), height)
             sx3 == ScreenX(FDiv(p3.v.X, p3.w), width)
             sy3 == ScreenY(FDiv(p3.v.Y, p3.w), height)
         IN  [culled |-> FALSE, clipped |-> FALSE, w |-> <<p1.w, p2.w, p3.w>>,
              divs   |-> <<p1.w, p1.w, p2.w, p2.w, p3.w, p3.w>>,
              calls  |-> << <<sx1, sy1, sx2, sy2>>,
                            <<sx2, sy2, sx3, sy3>>,
                            <<sx3, sy3, sx1, sy1>> >>]

\* what one triangle does: culled, clipped, the clip-space w1, w2, w3 computed,
\* the divisors used and the drawLine calls made, each call <<x1, y1, x2, y2>>
DrawTriangle(modelViewMatrix, mvpMatrix, v1, v2, v3, width, height) ==
    Bind(MultiplyVec3(modelViewMatrix, v1).v, LAMBDA tv1 :
    Bind(MultiplyVec3(modelViewMatrix, v2).v, LAMBDA tv2 :
    Bind(MultiplyVec3(modelViewMatrix, v3).v, LAMBDA tv3 :
        IF Culled(tv1, tv2, tv3)
        THEN [culled |-> TRUE, clipped |-> FALSE, w |-> <<>>, divs |-> <<>>, calls |-> <<>>]
        ELSE Bind(MultiplyVec3(mvpMatrix, v1), LAMBDA p1 :
             Bind(MultiplyVec3(mvpMatrix, v2), LAMBDA p2 :
             Bind(MultiplyVec3(mvpMatrix, v3), LAMBDA p3 :
                 ProjectAndDraw(p1, p2, p3, width, height)))))))

-----------------------------------------------------------------------------
(* One tick of the render loop after Update, main.go 174-236 *)

NoFrame == [drawn |-> FALSE, width |-> 0, height |-> 0, pitch |-> 0, aspectRatio |-> 0,
            tris |-> <<>>]

\* lines 188-233: the loop over the triangles
DrawTriangles(modelViewMatrix, mvpMatrix, width, height) ==
    [t \in 1..Len(triangles) |->
        DrawTriangle(modelViewMatrix, mvpMatrix,
                     verts[triangles[t][1] + 1],
                     verts[triangles[t][2] + 1],
                     verts[triangles[t][3] + 1], width, height)]

\* lines 176-180
ModelMatrix(g) == Multiply(NewRotationY(g.angle), NewRotationX(g.angle))

\* line 178
PlayerRotMatrix(g) == Multiply(NewRotationX(-g.player.Pitch), NewRotationY(-g.player.Yaw))

ViewMatrix(g) ==
    LET playerRotMatrix   == PlayerRotMatrix(g)
        playerTransMatrix == NewTranslation(-g.player.Position.X, -g.player.Position.Y,
                                            -g.player.Position.Z)
    IN  Multiply(playerRotMatrix, playerTransMatrix)

\* line 183
AspectRatio(width, height) == FMul(FDiv(ToFloat(width), ToFloat(height)), FP \div 2)

Frame(g, width, height) ==
    Bind(ModelMatrix(g), LAMBDA modelMatrix :
    Bind(ViewMatrix(g), LAMBDA viewMatrix :
    Bind(AspectRatio(width, height), LAMBDA aspectRatio :
    Bind(NewPerspective(fov, aspectRatio, near, far), LAMBDA projectionMatrix :
    Bind(Multiply(projectionMatrix, Multiply(viewMatrix, modelMatrix)), LAMBDA mvpMatrix :
    Bind(Multiply(viewMatrix, modelMatrix), LAMBDA modelViewMatrix :
        [drawn |-> TRUE, width |-> width, height |-> height,
         pitch |-> g.player.Pitch, aspectRatio |-> aspectRatio,
         tris |-> DrawTriangles(modelViewMatrix, mvpMatrix, width, height)]))))))

-----------------------------------------------------------------------------
(* The input listener goroutine, main.go 113-166 *)

AlgIdle == [op |-> "idle"]

NoEvent == [type |-> "none", rune |-> "", x |-> 0, y |-> 0]

KeyEvent(r) == [type |-> "key", rune |-> r, x |-> 0, y |-> 0]

MouseAt(x, y) == [type |-> "mouse", rune |-> "", x |-> x, y |-> y]

ProgramIdle == line = LineIdle /\ plotted = <<>> /\ alg = AlgIdle

Init ==
    /\ gs = GsInit
    /\ quit = 0
    /\ ev = NoEvent
    /\ lpc = "poll"
    /\ rpc = "select"
    /\ lreg = Zero3
    /\ rreg = Zero3
    /\ frame = NoFrame
    /\ events = 0
    /\ ticks = 0
    /\ ProgramIdle

renderVars == <<rpc, rreg, frame, ticks>>

otherVars == <<line, plotted, alg>>

\* ev := screen.PollEvent() returns e
Polled(e) ==
    /\ lpc = "poll"
    /\ events < MaxEvents
    /\ events' = events + 1
    /\ ev' = e

\* 'q' closing the channel without returning
KeyQuit_NoReturn ==
    /\ Polled(KeyEvent("q"))
    /\ quit' = quit + 1
    /\ lpc' = "clamp"
    /\ UNCHANGED <<gs, lreg, renderVars, otherVars>>

\* case 'q': close(quit); return
KeyQuit ==
    /\ Polled(KeyEvent("q"))
    /\ quit' = quit + 1
    /\ lpc' = "done"
    /\ UNCHANGED <<gs, lreg, renderVars, otherVars>>

\* case 'a', case 'd'
KeyYaw ==
    /\ \/ Polled(KeyEvent("a")) /\ gs' = [gs EXCEPT !.player.Yaw = @ + 30]
       \/ Polled(KeyEvent("d")) /\ gs' = [gs EXCEPT !.player.Yaw = @ - 30]
    /\ lpc' = "clamp"
    /\ UNCHANGED <<quit, lreg, renderVars, otherVars>>

\* case 'r', case 'f'
KeyPitch ==
    /\ \/ Polled(KeyEvent("r")) /\ gs' = [gs EXCEPT !.player.Pitch = @ + 30]
       \/ Polled(KeyEvent("f")) /\ gs' = [gs EXCEPT !.player.Pitch = @ - 30]
    /\ lpc' = "clamp"
    /\ UNCHANGED <<quit, lreg, renderVars, otherVars>>

\* case 'w': the right-hand side of line 133 is evaluated
KeyThrust ==
    /\ Polled(KeyEvent("w"))
    /\ LET forwardDir   == Forward(gs.player)
           thrustVector == Scale(forwardDir, thrust)
       IN  lreg' = Add(gs.player.Velocity, thrustVector)
    /\ lpc' = "store"
    /\ UNCHANGED <<gs, quit, renderVars, otherVars>>

\* case 's': the right-hand side of line 136 is evaluated
KeyBrake ==
    /\ Polled(KeyEvent("s"))
    /\ LET brakeVector == Scale(gs.player.Velocity, -brakeForce)
       IN  lreg' = Add(gs.player.Velocity, brakeVector)
    /\ lpc' = "store"
    /\ UNCHANGED <<gs, quit, renderVars, otherVars>>

\* any other rune: no case of the switch applies
KeyOther ==
    /\ Polled(KeyEvent("x"))
    /\ lpc' = "clamp"
    /\ UNCHANGED <<gs, quit, lreg, renderVars, otherVars>>

\* the assignment made to wait while Update is between its read and its write
StoreVelocity_Locked ==
    /\ lpc = "store"
    /\ rpc # "store"
    /\ gs' = [gs EXCEPT !.player.Velocity = lreg]
    /\ lpc' = "clamp"
    /\ UNCHANGED <<quit, ev, lreg, events, renderVars, otherVars>>

\* the assignment to gs.player.Velocity of line 133 or 136
StoreVelocity ==
    /\ lpc = "store"
    /\ gs' = [gs EXCEPT !.player.Velocity = lreg]
    /\ lpc' = "clamp"
    /\ UNCHANGED <<quit, ev, lreg, events, renderVars, otherVars>>

\* lines 139-145, at the end of the key case
ClampPitch ==
    /\ lpc = "clamp"
    /\ gs' = [gs EXCEPT !.player.Pitch =
                 IF @ > maxPitch THEN maxPitch
                 ELSE IF @ < -maxPitch THEN -maxPitch
                 ELSE @]
    /\ lpc' = "poll"
    /\ UNCHANGED <<quit, ev, lreg, events, renderVars, otherVars>>

\* case *tcell.EventMouse, lines 147-163
MouseEvent ==
    /\ \E newX \in {0, MouseCol}, newY \in {0, MouseRow} :
          /\ Polled(MouseAt(newX, newY))
          /\ IF gs.player.firstMouse
             THEN gs' = [gs EXCEPT !.player.prevMouseX = newX,
                                   !.player.prevMouseY = newY,
                                   !.player.firstMouse = FALSE]
             ELSE LET dx == ToFloat(newX - gs.player.prevMouseX)
                      dy == ToFloat(newY - gs.player.prevMouseY)
                  IN  gs' = [gs EXCEPT !.player.Yaw = @ - FMul(dx, 50),
                                       !.player.Pitch = @ - FMul(dy, 50),
                                       !.player.prevMouseX = newX,
                                       !.player.prevMouseY = newY]
    /\ lpc' = "poll"
    /\ UNCHANGED <<quit, lreg, renderVars, otherVars>>

Listener ==
    \/ KeyQuit \/ KeyYaw \/ KeyPitch \/ KeyThrust \/ KeyBrake \/ KeyOther
    \/ StoreVelocity \/ ClampPitch \/ MouseEvent

-----------------------------------------------------------------------------
(* The render loop, main.go 168-238, with GameState.Update, main.go 41-45 *)

\* select: case <-quit returns, default starts a tick
RenderSelect ==
    /\ rpc = "select"
    /\ IF quit > 0
       THEN rpc' = "done" /\ ticks' = ticks
       ELSE ticks < MaxTicks /\ rpc' = "update" /\ ticks' = ticks + 1
    /\ UNCHANGED <<gs, quit, ev, lpc, lreg, rreg, frame, events, otherVars>>

\* Update with the decay left out
UpdateScale_NoDecay ==
    /\ rpc = "update"
    /\ gs' = [gs EXCEPT !.angle = @ + 10]
    /\ rreg' = gs.player.Velocity
    /\ rpc' = "store"
    /\ UNCHANGED <<quit, ev, lpc, lreg, frame, events, ticks, otherVars>>

\* Update, line 42 and the right-hand side of line 43
UpdateScale ==
    /\ rpc = "update"
    /\ gs' = [gs EXCEPT !.angle = @ + 10]
    /\ rreg' = Scale(gs.player.Velocity, friction)
    /\ rpc' = "store"
    /\ UNCHANGED <<quit, ev, lpc, lreg, frame, events, ticks, otherVars>>

\* Update, the assignment of line 43
UpdateStore ==
    /\ rpc = "store"
    /\ gs' = [gs EXCEPT !.player.Velocity = rreg]
    /\ rpc' = "move"
    /\ UNCHANGED <<quit, ev, lpc, lreg, rreg, frame, events, ticks, otherVars>>

\* Update, line 44
UpdateMove ==
    /\ rpc = "move"
    /\ gs' = [gs EXCEPT !.player.Position = Add(@, gs.player.Velocity)]
    /\ rpc' = "frame"
    /\ UNCHANGED <<quit, ev, lpc, lreg, rreg, frame, events, ticks, otherVars>>

\* lines 174-236: Clear, the transform pipeline, the drawLine calls, Show, Sleep
RenderFrame ==
    /\ rpc = "frame"
    /\ rpc' = "select"
    /\ UNCHANGED <<gs, quit, ev, lpc, lreg, rreg, events, ticks, otherVars>>
    /\ \E height \in {ScreenH, 0} : frame' = Frame(gs, ScreenW, height)

Render == RenderSelect \/ UpdateScale \/ UpdateStore \/ UpdateMove \/ RenderFrame

Next == Listener \/ Render

Spec == Init /\ [][Next]_vars

\* the step of the render loop from the end of Update to the next select; in
\* a behaviour of Spec every such step is a RenderFrame step
FrameShown == rpc = "frame" /\ rpc' = "select"

\* the Go scheduler runs the render loop whenever it can take a step; the
\* listener waits for events that need not come
SpecFair ==
    /\ Spec
    /\ WF_vars(RenderSelect \/ UpdateScale \/ UpdateStore \/ UpdateMove)
    /\ WF_rpc(FrameShown)

-----------------------------------------------------------------------------
(* Properties of the program: Spec and SpecFair *)

PitchInRange(p) == -maxPitch <= p /\ p <= maxPitch

\* C1: Pitch is within [-maxPitch, maxPitch] whenever the listener has
\* completed the handling of an event, and in every value of Pitch the render
\* loop has read.
C1_PitchAlwaysClamped ==
    /\ lpc \in {"poll", "done"} => PitchInRange(gs.player.Pitch)
    /\ frame.drawn => PitchInRange(frame.pitch)

\* C5: the quit channel is closed by the key 'q' only and at most once; the
\* listener then has returned and polls no further event; the render loop
\* returns only when the channel is closed, starts no tick once it is closed,
\* and eventually returns.
QuitStep ==
    /\ quit <= 1
    /\ quit' # quit => ev' = KeyEvent("q") /\ quit' = 1 /\ lpc' = "done"
    /\ (lpc' = "done" /\ lpc # "done") => ev' = KeyEvent("q") /\ quit' = 1
    /\ lpc = "done" => lpc' = "done" /\ events' = events /\ ev' = ev
                       /\ gs'.player.Yaw = gs.player.Yaw
                       /\ gs'.player.Pitch = gs.player.Pitch
    /\ (rpc' = "done" /\ rpc # "done") => quit > 0 /\ rpc = "select"
    /\ rpc = "done" => rpc' = "done"
    /\ quit > 0 => ticks' = ticks

C5_QuitStopsBoth == [][QuitStep]_vars /\ ((quit > 0) ~> (rpc = "done"))

C5_Witness == quit = 1 /\ lpc = "done" /\ rpc = "done" /\ frame.drawn /\ events > 1

\* C9: in a tick every triangle makes no drawLine call or exactly the three
\* calls v1-v2, v2-v3, v3-v1; none when it is culled or some clip-space w of
\* it is below 0.1, three otherwise; no division by a w below 0.1 is made.
C9_ZeroOrThreeCalls ==
    frame.drawn =>
        \A t \in 1..Len(triangles) :
            LET r == frame.tris[t]
            IN  /\ Len(r.calls) \in {0, 3}
                /\ r.culled => r.calls = <<>> /\ r.divs = <<>>
                /\ ~r.culled =>
                      /\ Len(r.w) = 3
                      /\ Len(r.calls) = 0 <=> \E k \in 1..3 : r.w[k] < near
                /\ Len(r.calls) = 3 =>
                      /\ <<r.calls[1][3], r.calls[1][4]>> = <<r.calls[2][1], r.calls[2][2]>>
                      /\ <<r.calls[2][3], r.calls[2][4]>> = <<r.calls[3][1], r.calls[3][2]>>
                      /\ <<r.calls[3][3], r.calls[3][4]>> = <<r.calls[1][1], r.calls[1][2]>>
                      /\ r.divs = <<r.w[1], r.w[1], r.w[2], r.w[2], r.w[3], r.w[3]>>
                /\ \A i \in 1..Len(r.divs) : r.divs[i] >= near

\* a frame with a triangle facing the camera of which some vertex, not all,
\* is behind the near threshold
C9_Witness ==
    /\ frame.drawn
    /\ \E t \in 1..Len(triangles) :
          /\ ~frame.tris[t].culled
          /\ frame.tris[t].calls = <<>>
          /\ \E j, k \in 1..3 : frame.tris[t].w[j] < near /\ frame.tris[t].w[k] >= near

\* C10: a tick in which the screen reports height 0 transforms no triangle
\* and makes no drawLine call.
C10_ZeroHeightSkipsFrame ==
    (frame.drawn /\ frame.height = 0) =>
        /\ ~IsInf(frame.aspectRatio)
        /\ \A t \in 1..Len(frame.tris) : frame.tris[t].calls = <<>>

-----------------------------------------------------------------------------
(* drawLine run on its own: SpecLine *)

programVars == <<gs, quit, ev, lpc, rpc, lreg, rreg, frame, events, ticks>>

LineCoords == (-LineLo)..LineHi

\* a call of drawLine: lines 48-63
DrawLineCall ==
    /\ line.pc = "idle"
    /\ \E x1 \in LineCoords, y1 \in LineCoords, x2 \in LineCoords, y2 \in LineCoords :
          line' = DrawLineEnter(x1, y1, x2, y2)
    /\ plotted' = <<>>
    /\ UNCHANGED <<programVars, alg>>

\* one pass of the loop: SetContent(x1, y1), then lines 66-77
DrawLineStep ==
    /\ line.pc = "loop"
    /\ plotted' = Append(plotted, <<line.x1, line.y1>>)
    /\ line' = DrawLineBody(line)
    /\ UNCHANGED <<programVars, alg>>

NextLine == DrawLineCall \/ DrawLineStep

SpecLine == Init /\ [][NextLine]_vars

\* C2: the cells drawLine plots from (x1,y1) to (x2,y2) are, as a set, those
\* it plots from (x2,y2) to (x1,y1), and as a sequence their reverse.
C2_ReverseSymmetric ==
    line.pc = "done" =>
        LET back == drawLine(line.x2, line.y2, line.ax, line.ay)
        IN  /\ Range(plotted) = Range(back)
            /\ plotted = Reverse(back)

\* C3: every pass advances by exactly one along the dominant axis and by at
\* most one along the other, so drawLine plots max(|x2-x1|, |y2-y1|) + 1
\* distinct cells; (0,0)-(5,0) and (0,0)-(5,5) plot the six cells expected.
C3_OneStepPerPass ==
    line.pc # "idle" =>
        /\ \A i \in 1..(Len(plotted) - 1) :
              LET ddx == Abs(plotted[i + 1][1] - plotted[i][1])
                  ddy == Abs(plotted[i + 1][2] - plotted[i][2])
              IN  IF line.dx >= line.dy THEN ddx = 1 /\ ddy <= 1
                                        ELSE ddy = 1 /\ ddx <= 1
        /\ line.pc = "done" =>
              /\ Len(plotted) = Max(line.dx, line.dy) + 1
              /\ Cardinality(Range(plotted)) = Len(plotted)
              /\ <<line.ax, line.ay, line.x2, line.y2>> = <<0, 0, 5, 0>> =>
                    plotted = << <<0, 0>>, <<1, 0>>, <<2, 0>>, <<3, 0>>, <<4, 0>>, <<5, 0>> >>
              /\ <<line.ax, line.ay, line.x2, line.y2>> = <<0, 0, 5, 5>> =>
                    plotted = << <<0, 0>>, <<1, 1>>, <<2, 2>>, <<3, 3>>, <<4, 4>>, <<5, 5>> >>

C3_Witness ==
    /\ line.pc = "done"
    /\ <<line.ax, line.ay, line.x2, line.y2>> = <<0, 0, 5, 5>>
    /\ Len(plotted) = 6

InBox(x, y) ==
    /\ Min(line.ax, line.x2) <= x /\ x <= Max(line.ax, line.x2)
    /\ Min(line.ay, line.y2) <= y /\ y <= Max(line.ay, line.y2)

\* C4: the loop ends after at most max(|x2-x1|, |y2-y1|) + 1 passes; the
\* first cell plotted is (x1,y1), the last is (x2,y2), and every cell visited
\* is plotted and lies in the bounding box of the endpoints.
C4_TerminatesInBox ==
    line.pc # "idle" =>
        /\ Len(plotted) <= Max(line.dx, line.dy) + 1
        /\ InBox(line.x1, line.y1)
        /\ \A i \in 1..Len(plotted) : InBox(plotted[i][1], plotted[i][2])
        /\ Len(plotted) > 0 => plotted[1] = <<line.ax, line.ay>>
        /\ line.pc = "loop" => (Len(plotted) = Max(line.dx, line.dy) + 1
                                   => <<line.x1, line.y1>> = <<line.x2, line.y2>>)
        /\ line.pc = "done" =>
              /\ plotted[Len(plotted)] = <<line.x2, line.y2>>
              /\ <<line.x1, line.y1>> = <<line.x2, line.y2>>

\* a vertical line from a cell above the screen, ended
C4_Witness ==
    /\ line.pc = "done"
    /\ line.ax = line.x2 /\ line.ax < 0
    /\ line.ay < 0 /\ line.y2 > 0
    /\ Len(plotted) > 2

-----------------------------------------------------------------------------
(* The matrix operations on their own: SpecMat *)

AlgCoords == {n * FP : n \in (-MaxAlg)..MaxAlg}

AlgVecs == {Vec3(x, y, z) : x \in AlgCoords, y \in AlgCoords, z \in AlgCoords}

\* a matrix with a fourth row other than 0, 0, 0, 1
MatA(p, q) ==
    << FP, p, 0, q,
       0, FP, q, 0,
       p, 0, FP, -FP,
       q, p, 0, p >>

\* an affine matrix
MatB(r) ==
    << FP, r, 0, 0,
       -r, FP, r, 0,
       0, 2 * FP, FP, 0,
       r, -FP, r, FP >>

InitMat ==
    /\ gs = GsInit /\ quit = 0 /\ ev = NoEvent /\ lpc = "poll" /\ rpc = "select"
    /\ lreg = Zero3 /\ rreg = Zero3 /\ frame = NoFrame /\ events = 0 /\ ticks = 0
    /\ line = LineIdle /\ plotted = <<>>
    /\ alg \in {[op |-> "mat", A |-> MatA(p, q), B |-> MatB(r), v |-> v] :
                   p \in AlgCoords, q \in AlgCoords, r \in AlgCoords, v \in AlgVecs}

\* A.MultiplyVec3(v)
Transform ==
    /\ alg.op = "mat"
    /\ alg' = [op |-> "transformed", A |-> alg.A, B |-> alg.B, v |-> alg.v,
               p |-> MultiplyVec3(alg.A, alg.v)]
    /\ UNCHANGED <<programVars, line, plotted>>

\* A.Multiply(B).MultiplyVec3(v), A.MultiplyVec3 of the point of
\* B.MultiplyVec3(v), and the products of A with NewTranslation(0, 0, 0)
Compose ==
    /\ alg.op = "mat"
    /\ alg' = [op |-> "composed", A |-> alg.A, B |-> alg.B, v |-> alg.v,
               inner |-> MultiplyVec3(alg.B, alg.v),
               left  |-> MultiplyVec3(Multiply(alg.A, alg.B), alg.v),
               right |-> MultiplyVec3(alg.A, MultiplyVec3(alg.B, alg.v).v),
               idL   |-> Multiply(NewTranslation(0, 0, 0), alg.A),
               idR   |-> Multiply(alg.A, NewTranslation(0, 0, 0))]
    /\ UNCHANGED <<programVars, line, plotted>>

NextMat == Transform \/ Compose

SpecMat == InitMat /\ [][NextMat]_vars

\* row k (1..4) of a matrix stored by columns
Row(m, k) == <<m[k], m[k + 4], m[k + 8], m[k + 12]>>

Dot4(a, b) == FMul(a[1], b[1]) + FMul(a[2], b[2]) + FMul(a[3], b[3]) + FMul(a[4], b[4])

\* C6: MultiplyVec3 returns the dot products of (x, y, z, 1) with rows 1-3 of
\* the matrix, not divided by w, and w, the dot product with row 4.
C6_NoDivision ==
    alg.op = "transformed" =>
        LET h == <<alg.v.X, alg.v.Y, alg.v.Z, FP>>
        IN  /\ alg.p.v.X = Dot4(h, Row(alg.A, 1))
            /\ alg.p.v.Y = Dot4(h, Row(alg.A, 2))
            /\ alg.p.v.Z = Dot4(h, Row(alg.A, 3))
            /\ alg.p.w = Dot4(h, Row(alg.A, 4))

\* a result whose w is neither 0 nor 1 and whose x a division would change
C6_Witness ==
    /\ alg.op = "transformed"
    /\ alg.p.w \notin {0, FP}
    /\ alg.p.v.X # 0

\* C7: for an affine B, A.Multiply(B) maps v to what A maps B's image of v
\* to, w included; NewTranslation(0, 0, 0) is an identity of Multiply on
\* both sides.
C7_RightmostFirst ==
    alg.op = "composed" =>
        /\ alg.inner.w = FP
        /\ alg.left = alg.right
        /\ alg.idL = alg.A
        /\ alg.idR = alg.A

\* a composition of two matrices that do not commute, with w other than 1
C7_Witness ==
    /\ alg.op = "composed"
    /\ Multiply(alg.A, alg.B) # Multiply(alg.B, alg.A)
    /\ alg.left.w \notin {0, FP}
    /\ alg.left.v # alg.v

-----------------------------------------------------------------------------
(* The body of the triangle loop on its own, camera at the origin: SpecCull *)

CullVerts == {Vec3(FP, 0, -FP), Vec3(0, FP, -FP), Vec3(0, 0, -FP),
              Vec3(FP, FP, FP), Vec3(-FP, 2 * FP, -2 * FP)}

\* no spin, the player at the origin with yaw 0 and pitch 0
AtOrigin == [angle |-> 0, player |-> [GsInit.player EXCEPT !.Position = Zero3]]

InitCull ==
    /\ gs = GsInit /\ quit = 0 /\ ev = NoEvent /\ lpc = "poll" /\ rpc = "select"
    /\ lreg = Zero3 /\ rreg = Zero3 /\ frame = NoFrame /\ events = 0 /\ ticks = 0
    /\ line = LineIdle /\ plotted = <<>>
    /\ alg \in {[op |-> "tri", v1 |-> a, v2 |-> b, v3 |-> c] :
                   a \in AlgVecs, b \in CullVerts, c \in CullVerts}

\* lines 189-232 for the triangle v1, v2, v3 and for v3, v2, v1
CullTriangle ==
    /\ alg.op = "tri"
    /\ LET modelViewMatrix == Multiply(ViewMatrix(AtOrigin), ModelMatrix(AtOrigin))
           projectionMatrix == NewPerspective(fov, AspectRatio(ScreenW, ScreenH), near, far)
           mvpMatrix == Multiply(projectionMatrix, modelViewMatrix)
       IN  alg' = [op |-> "drawn", v1 |-> alg.v1, v2 |-> alg.v2, v3 |-> alg.v3,
                   fwd |-> DrawTriangle(modelViewMatrix, mvpMatrix,
                                        alg.v1, alg.v2, alg.v3, ScreenW, ScreenH),
                   rev |-> DrawTriangle(modelViewMatrix, mvpMatrix,
                                        alg.v3, alg.v2, alg.v1, ScreenW, ScreenH)]
    /\ UNCHANGED <<programVars, line, plotted>>

SpecCull == InitCull /\ [][CullTriangle]_vars

\* C8: a triangle with Dot(Cross(tv2 - tv1, tv3 - tv1), tv1) >= 0 makes no
\* drawLine call; (0,0,-1), (1,0,-1), (0,1,-1) seen from the origin is not
\* culled; the reverse of a triangle that is not culled is culled.
C8_CullsBackFaces ==
    alg.op = "drawn" =>
        /\ Dot(Cross(Sub(alg.v2, alg.v1), Sub(alg.v3, alg.v1)), alg.v1) >= 0
              => alg.fwd.culled /\ alg.fwd.calls = <<>>
        /\ <<alg.v1, alg.v2, alg.v3>> = <<Vec3(0, 0, -FP), Vec3(FP, 0, -FP), Vec3(0, FP, -FP)>>
              => ~alg.fwd.culled /\ Len(alg.fwd.calls) = 3
        /\ ~alg.fwd.culled => alg.rev.culled /\ alg.rev.calls = <<>>

C8_Witness ==
    /\ alg.op = "drawn"
    /\ <<alg.v1, alg.v2, alg.v3>> = <<Vec3(0, 0, -FP), Vec3(FP, 0, -FP), Vec3(0, FP, -FP)>>
    /\ ~alg.fwd.culled
    /\ alg.rev.culled

-----------------------------------------------------------------------------
(* GameState.Update called repeatedly with no input event: SpecUpdate *)

UpdateVelocities == {Vec3(x, y, z) : x \in {-1000 * FP, 0, FP, 1000 * FP},
                                     y \in {0, 100 * FP}, z \in {0, -FP}}

\* the state on entry to a call of Update, kept to compare with the result
Entered(g) == [op |-> "update", g |-> g]

InitUpdate ==
    /\ \E v \in UpdateVelocities, yaw \in {0, 300} :
          gs = [GsInit EXCEPT !.player.Velocity = v, !.player.Yaw = yaw,
                              !.player.Pitch = -200]
    /\ quit = 0 /\ ev = NoEvent /\ lpc = "poll" /\ rpc = "update"
    /\ lreg = Zero3 /\ rreg = Zero3 /\ frame = NoFrame /\ events = 0 /\ ticks = 1
    /\ line = LineIdle /\ plotted = <<>>
    /\ alg = Entered(gs)

\* gs.Update() of the next tick, line 173
UpdateCall ==
    /\ rpc = "frame"
    /\ ticks < MaxSteps
    /\ ticks' = ticks + 1
    /\ rpc' = "update"
    /\ alg' = Entered(gs)
    /\ UNCHANGED <<gs, quit, ev, lpc, lreg, rreg, frame, events, line, plotted>>

NextUpdate == UpdateCall \/ UpdateScale \/ UpdateStore \/ UpdateMove

SpecUpdate == InitUpdate /\ [][NextUpdate]_vars

\* a is 0.99 times b, where that product has three decimals
Decayed(a, b) == b % 100 = 0 => a * 100 = b * 99

\* C11: a call of Update leaves velocity = 0.99 * the velocity on entry and
\* position = the position on entry + the decayed velocity, the angle 0.01
\* larger, yaw and pitch as they were; a velocity other than zero stays other
\* than zero, and (1,0,0) becomes (0.99,0,0).
C11_UpdateStep ==
    (alg.op = "update" /\ rpc = "frame") =>
        LET old == alg.g.player
            new == gs.player
        IN  /\ Decayed(new.Velocity.X, old.Velocity.X)
            /\ Decayed(new.Velocity.Y, old.Velocity.Y)
            /\ Decayed(new.Velocity.Z, old.Velocity.Z)
            /\ new.Position.X = old.Position.X + new.Velocity.X
            /\ new.Position.Y = old.Position.Y + new.Velocity.Y
            /\ new.Position.Z = old.Position.Z + new.Velocity.Z
            /\ gs.angle = alg.g.angle + 10
            /\ gs.angle > alg.g.angle
            /\ gs.angle = 10 * ticks
            /\ new.Yaw = old.Yaw /\ new.Pitch = old.Pitch
            /\ old.Velocity # Zero3 => new.Velocity # Zero3
            /\ \A c \in {"X", "Y", "Z"} : old.Velocity[c] # 0 => new.Velocity[c] # 0
            /\ old.Velocity = Vec3(FP, 0, 0) => new.Velocity = Vec3(990, 0, 0)

\* the third call in a row done, the velocity still the exact product
C11_Witness ==
    /\ alg.op = "update" /\ rpc = "frame"
    /\ ticks = 3
    /\ alg.g.player.Velocity.X = 980100
    /\ gs.player.Velocity.X = 970299
    /\ gs.player.Position.X = 990000 + 980100 + 970299

-----------------------------------------------------------------------------
(* The key 'w' and the view rotation, from rest: SpecThrust *)

QuarterTurns == {0, PI \div 2, -(PI \div 2), PI}

ThrustYaws == QuarterTurns \cup {300, -700, 2000}

ThrustPitches == {0, 500, -500, 1000, -maxPitch}

InitThrust ==
    /\ \E yaw \in ThrustYaws, pitch \in ThrustPitches :
          gs = [GsInit EXCEPT !.player.Yaw = yaw, !.player.Pitch = pitch]
    /\ quit = 0 /\ ev = NoEvent /\ lpc = "poll" /\ rpc = "select"
    /\ lreg = Zero3 /\ rreg = Zero3 /\ frame = NoFrame /\ events = 0 /\ ticks = 0
    /\ ProgramIdle

\* playerRotMatrix of line 178 applied to Forward() and to the velocity
ViewForward ==
    /\ lpc = "poll"
    /\ events > 0
    /\ IF alg.op = "idle" THEN TRUE ELSE alg.at # events
    /\ alg' = [op |-> "view", at |-> events,
               forward |-> Forward(gs.player),
               seen    |-> MultiplyVec3(PlayerRotMatrix(gs), Forward(gs.player)).v,
               pushed  |-> MultiplyVec3(PlayerRotMatrix(gs), gs.player.Velocity).v]
    /\ UNCHANGED <<programVars, line, plotted>>

NextThrust == KeyThrust \/ StoreVelocity \/ ClampPitch \/ ViewForward

SpecThrust == InitThrust /\ [][NextThrust]_vars

\* a within three thousandths of b
Close(a, b) == Abs(a - b) <= 3

\* C12: the view rotation maps Forward() to (0,0,-1): exactly at yaw a
\* multiple of pi/2 with pitch 0, to three thousandths elsewhere; the
\* velocity 'w' keys give a player at rest is, seen through the view
\* rotation, along -Z, to one thousandth for each key.
C12_ThrustAlongView ==
    (alg.op = "view" /\ alg.at = events /\ lpc = "poll") =>
        /\ Close(alg.seen.X, 0) /\ Close(alg.seen.Y, 0) /\ Close(alg.seen.Z, -FP)
        /\ (gs.player.Yaw \in QuarterTurns /\ gs.player.Pitch = 0) =>
              /\ alg.seen = Vec3(0, 0, -FP)
              /\ alg.pushed = Vec3(0, 0, -(thrust * events))
        /\ alg.pushed.Z <= -((thrust - 1) * events)
        /\ Abs(alg.pushed.X) <= events /\ Abs(alg.pushed.Y) <= events

\* thrust given at yaw pi/2, where Forward() is along -X
C12_Witness ==
    /\ alg.op = "view" /\ alg.at = events /\ lpc = "poll"
    /\ gs.player.Yaw = PI \div 2 /\ gs.player.Pitch = 0
    /\ alg.forward = Vec3(-FP, 0, 0)
    /\ gs.player.Velocity = Vec3(-thrust, 0, 0)
    /\ alg.seen = Vec3(0, 0, -FP)

-----------------------------------------------------------------------------
(* The two writers of gs.player.Velocity: Spec *)

\* a step of either writer between its read of Velocity and its write
UnserializedStep ==
    /\ (lpc = "store" /\ lpc' # "store") => gs'.player.Velocity = lreg
    /\ (rpc = "store" /\ rpc' # "store") => gs'.player.Velocity = rreg
    /\ (lpc = "store" /\ lpc' = "store") => lreg' = lreg
    /\ (rpc = "store" /\ rpc' = "store") => rreg' = rreg

\* neither writer, having read Velocity, waits for the other to write
NeitherWaits ==
    /\ lpc = "store" => ENABLED StoreVelocity
    /\ rpc = "store" => ENABLED UpdateStore
    /\ (rpc = "update" /\ lpc = "store") => ENABLED UpdateScale

\* C13: nothing serializes the listener's and the render loop's
\* read-modify-write of Velocity: each writes the value it computed from what
\* it read, whatever the other wrote since, and neither waits for the other;
\* so one of two overlapping writes is lost.
C13_LostUpdate == []NeitherWaits /\ [][UnserializedStep]_vars

\* one 'w' key handled and one Update done, and the velocity is zero: Update
\* read the velocity before the thrust was stored and wrote after it
C13_Witness ==
    /\ ev = KeyEvent("w") /\ events = 1
    /\ lpc \in {"clamp", "poll"}
    /\ rpc \in {"move", "frame"}
    /\ lreg # Zero3 /\ rreg = Zero3
    /\ gs.player.Velocity = Zero3

====
